---------------------------- MODULE Spec2Model ----------------------------
(***************************************************************************)
(* Utterance segmentation of audio_server/whisper_server.py.               *)
(*                                                                         *)
(* Two threads share one WhisperAudioServer object without any lock:       *)
(*   - the receive loop of start_udp_server, which calls                   *)
(*     handle_audio_data for every datagram;                               *)
(*   - the daemon thread check_audio_timeout, which polls every 0.1 s and  *)
(*     calls process_audio_buffer in-line.                                 *)
(* Every attribute read or write of the shared object is one step, so the  *)
(* two threads interleave statement by statement.                          *)
(*                                                                         *)
(* Bytes are modelled by their position in the stream of all bytes ever    *)
(* received (1, 2, 3, ...), so a buffer is a sequence of positions.        *)
(* Time is counted in whole seconds.  The statements of handle_audio_data  *)
(* run in far less than a second, so the clock advances only while the     *)
(* receive loop is blocked in recvfrom; the checker thread can be anywhere *)
(* (transcription takes seconds).                                          *)
(*                                                                         *)
(* The main thread first goes through the startup of run(): load the      *)
(* model, bind the socket, start the timeout thread, enter the loop.       *)
(*                                                                         *)
(* enhance_audio_quality is followed on sample values in a specification   *)
(* of its own (CondSpec); in the main specification the conditioner is one *)
(* step that either enhanced the segment or returned it as it was.         *)
(*                                                                         *)
(* The except clause of handle_audio_data (lines 131-135) runs only when   *)
(* its try block raises.  bytearray.extend raises BufferError when the     *)
(* bytearray is exported, and no export outlives a statement here (bytes() *)
(* copies), so what is left is an allocation failure.  Spec is the server  *)
(* without such failures; FaultSpec adds them.  The BufferError branches   *)
(* of the two clear() calls are the same step as clear() itself.           *)
(***************************************************************************)
EXTENDS Integers, Sequences, FiniteSets, TLC

\* ------------------------------------------------------------------ bounds
MaxPackets == 2          \* receive attempts (recvfrom calls) in one run
MaxTime == 7             \* last value of the clock
sample_rate == 2         \* config 'sample_rate', scaled down from 16000

\* ------------------------------------------------------- program constants
audio_timeout == 2       \* self.audio_timeout = 2.0
MaxSeconds == 30         \* max_buffer_size = 30 * sample_rate * 2
KeepSeconds == 20        \* keep_size = 20 * sample_rate * 2
MinTextLen == 2          \* len(transcribed_text) > 2

\* The attributes assigned by load_config and __init__ that the spec calls
\* the configuration.
VARIABLE config

\* What load_config leaves (the file's values, or the defaults of lines
\* 64-70) and line 41; the sample rate is scaled down.
LoadedConfig ==
  [audio_port |-> 8080, sample_rate |-> sample_rate, channels |-> 1,
   bits_per_sample |-> 16, audio_timeout |-> audio_timeout,
   endpoint |-> "192.168.1.100:80"]

max_buffer_size == MaxSeconds * config.sample_rate * 2
keep_size == KeepSeconds * config.sample_rate * 2

\* Datagram sizes offered by the environment (recvfrom accepts any size up
\* to 4096): empty, a single byte (two of them make one sample, less than a
\* second), and 17.5 seconds of audio (two of them overflow the 30 s cap).
BigHalfSeconds == 35
PacketSizes == {0, 1, BigHalfSeconds * sample_rate}

\* Characters and the raw texts the transcription service may return.
WS == " "
Texts == { <<>>, <<WS, "o", "k", WS>>, <<"b", WS, "y", WS>> }

\* HTTP outcomes of the POST: a status code, or 0 for a RequestException.
PostOutcomes == {200, 201, 500, 0}

VARIABLES
  \* shared object
  is_recording, audio_buffer, last_audio_time, debug_save_audio,
  \* receive loop: position and locals of handle_audio_data
  pcR, data, current_time, sliced,
  \* checker thread: position and locals of process_audio_buffer
  pcC, audio_data, audio_array, processed_audio, result_text,
  transcribed_text,
  \* environment
  now, npkts, nextId,
  \* observations (history)
  post, dump, handed, truncated, closes, truncHappened, gapsShort,
  closedSince, seqStart, oldBuffer, bufChanged,
  tcalls, transcribe_raised, rxErr,
  \* startup: self.whisper_model, self.udp_socket
  whisper_model, udp_socket,
  \* one call of enhance_audio_quality on sample values: position,
  \* parameter, latest intermediate array, returned array, and the array
  \* the caller goes on to transcribe
  epc, enh_input, enh_cur, enh_result, heard

shared == <<is_recording, audio_buffer, last_audio_time, debug_save_audio,
            config>>
rlocals == <<pcR, data, current_time, sliced>>
clocals == <<pcC, audio_data, audio_array, processed_audio, result_text,
             transcribed_text>>
env == <<now, npkts, nextId>>
hist == <<post, dump, handed, truncated, closes, truncHappened, gapsShort,
          closedSince, seqStart, oldBuffer, bufChanged>>
boot == <<whisper_model, udp_socket>>
\* The stages of enhance_audio_quality that have returned, in order, and
\* whether each was given the whole array the one before it returned.
VARIABLES applied, fed

cond == <<epc, enh_input, enh_cur, enh_result, heard, applied, fed>>

\* Calls of the transcription service that have begun and not yet returned.
VARIABLE inflight

\* Two copies of the session, fed the same datagrams at the same times by
\* different senders (PairSpec).
VARIABLES runA, runB, ptime, pnext, pcount, pairOn
pair == <<runA, runB, ptime, pnext, pcount, pairOn>>

\* One conditioner stage applied to an array of sample values (StageSpec):
\* the stage, its argument, what it returned, and whether it divided.
VARIABLES npc, nx, ny, ndiv, ngain
num == <<npc, nx, ny, ndiv, ngain>>

\* The capture variant, AudioCaptureServer of examples/audio_capture_test.py
\* (CaptureSpec): its session, its main thread and its timeout thread, the
\* recordings started and the calls of save_audio_recording that found audio.
VARIABLES cap_is_recording, cap_audio_buffer, cap_last_audio_time,
          cap_running, cap_pcM, cap_pcC, cap_data, cap_current_time,
          cap_now, cap_npkts, cap_nextId, cap_rec, cap_saves
cap == <<cap_is_recording, cap_audio_buffer, cap_last_audio_time,
         cap_running, cap_pcM, cap_pcC, cap_data, cap_current_time,
         cap_now, cap_npkts, cap_nextId, cap_rec, cap_saves>>
vars == <<shared, rlocals, clocals, env, hist, tcalls, inflight, transcribe_raised,
          rxErr, boot, cond, pair, num, cap>>

\* ----------------------------------------------------------- pure helpers
Range(s) == { s[i] : i \in 1..Len(s) }

\* (mutation: the slice keeps the oldest k elements, s[:k])
LastN_Oldest(s, k) == IF k >= Len(s) THEN s ELSE SubSeq(s, 1, k)

\* (mutation: the slice stops one byte short of the end)
LastN_DropsEnd(s, k) ==
  IF k = 0 \/ k >= Len(s) THEN s ELSE SubSeq(s, Len(s) - k, Len(s) - 1)

\* Python s[-k:] : the last k elements; the whole of s when k = 0 or
\* k >= len(s).
LastN(s, k) ==
  IF k = 0 \/ k >= Len(s) THEN s ELSE SubSeq(s, Len(s) - k + 1, Len(s))

\* (mutation: the two bytes of every sample are taken in the wrong order)
FromBuffer_Swapped(b) ==
  [ i \in 1..(Len(b) \div 2) |-> <<b[2 * i], b[2 * i - 1]>> ]

\* np.frombuffer(bytes, dtype=np.int16): consecutive byte pairs, one
\* sample each.  Defined for even lengths; odd lengths raise ValueError.
FromBuffer(b) == [ i \in 1..(Len(b) \div 2) |-> <<b[2 * i - 1], b[2 * i]>> ]

\* The bytes of a sample array, in order (ndarray.tobytes()).
ToBytes(a) == [ i \in 1..(2 * Len(a)) |->
                  IF i % 2 = 1 THEN a[(i + 1) \div 2][1] ELSE a[i \div 2][2] ]

\* str.strip(): drop leading and trailing whitespace.
RECURSIVE LStrip(_)
LStrip(t) == IF t # <<>> /\ Head(t) = WS THEN LStrip(Tail(t)) ELSE t
RECURSIVE RStrip(_)
RStrip(t) ==
  IF t # <<>> /\ t[Len(t)] = WS THEN RStrip(SubSeq(t, 1, Len(t) - 1)) ELSE t
Strip(t) == RStrip(LStrip(t))

\* (mutation: the length test is off by one)
Accepted_OffByOne(t) == t # <<>> /\ Len(t) >= MinTextLen

\* if transcribed_text and len(transcribed_text) > 2
Accepted(t) == t # <<>> /\ Len(t) > MinTextLen

\* (mutation: the sample count is compared as if it were a byte count)
Insufficient_Bytes(a) == 2 * Len(a) < sample_rate

\* if len(audio_array) < self.sample_rate
Insufficient(a) == Len(a) < config.sample_rate

\* (mutation: a buffer of exactly the cap is cut too)
TooLarge_NonStrict(b) == Len(b) >= max_buffer_size

\* (mutation: the cap is computed for 16 bytes per sample instead of 2)
TooLarge_WrongUnit(b) == Len(b) > MaxSeconds * sample_rate * 16

\* if len(self.audio_buffer) > max_buffer_size
TooLarge(b) == Len(b) > max_buffer_size

\* (mutation: any silence at all counts as a timeout)
TimedOut_Eager(t, last) == t - last > 0

\* time.time() - self.last_audio_time > self.audio_timeout
TimedOut(t, last) == t - last > config.audio_timeout

Inc2(n) == IF n < 2 THEN n + 1 ELSE 2

\* ------------------------------------------- conditioner: sample values
\* enhance_audio_quality (lines 269-298) is followed on arrays of sample
\* values in a specification of its own, CondSpec.
\* An array is a record of its dtype and its samples.  A sample value is
\* an integer number of halves, whatever the dtype: the int16 value v is
\* 2*v and the float 0.5 is 1, so that the conversion to int16 truncates.
\* NaN is a float outside every range.
PadLen == 27             \* filtfilt's default padlen, 3 * max(len(a), len(b))
Int16Min == -32768       \* np.clip(audio_enhanced, -32768, 32767)
Int16Max == 32767
ScaleDiv == 32768        \* processed_audio.astype(np.float32) / 32768.0
NaN == 999999

Int16Reps == {2 * Int16Min, -2, 0, 2 * Int16Max}
FloatReps == {-200000, 2 * Int16Min, -1, 0, 1, 2 * Int16Max,
              2 * Int16Max + 1, 200000, NaN}

\* Arrays of n samples of dtype t: the first sample and all the others are
\* chosen independently from S.
Arr(t, n, S) ==
  { [dtype |-> t, v |-> [ i \in 1..n |-> IF i = 1 THEN a ELSE b ]] :
      a, b \in S }

\* A local that has not been assigned.
NoArray == [dtype |-> "none", v |-> <<>>]

\* Segment lengths tried: empty, one sample, and the two lengths around
\* filtfilt's padlen.
CondLens == {0, 1, PadLen, PadLen + 1}

\* audio_data.astype(np.float64)
AsFloat(a) == [dtype |-> "float64", v |-> a.v]

\* The five stages in the order of lines 276-288, and the position after
\* each.
\* (mutation: compression and gain control change places)
StageAfter_Swapped(pc) ==
  CASE pc = "e276" -> "e279"
    [] pc = "e279" -> "e285"
    [] pc = "e285" -> "e282"
    [] pc = "e282" -> "e288"
    [] pc = "e288" -> "e291"

\* The function called by the statement at pc.
StageName(pc) ==
  CASE pc = "e276" -> "spectral_subtraction"
    [] pc = "e279" -> "apply_speech_filter"
    [] pc = "e282" -> "apply_compression"
    [] pc = "e285" -> "apply_agc"
    [] pc = "e288" -> "wiener_filter"
    [] pc = "e291" -> "clip"

\* (mutation: every stage is given the converted input again)
StageInput_Original(first, previous) == first

\* Each call is given the variable the statement before it assigned.
StageInput(first, previous) == previous

StageAfter(pc) ==
  CASE pc = "e276" -> "e279"
    [] pc = "e279" -> "e282"
    [] pc = "e282" -> "e285"
    [] pc = "e285" -> "e288"
    [] pc = "e288" -> "e291"

\* Inputs on which a stage raises whatever else happens:
\*   e279 apply_speech_filter: signal.filtfilt raises ValueError unless
\*        len(x) > padlen;
\*   e282 apply_compression: np.max of an empty array raises ValueError;
\*   e288 wiener_filter: window_size = min(512, len // 8) is 0 below 8
\*        samples and uniform_filter1d raises RuntimeError.
\* (spectral_subtraction and apply_agc only warn on an empty array.)
MustRaise(pc, a) ==
  \/ pc = "e279" /\ Len(a.v) <= PadLen
  \/ pc = "e282" /\ Len(a.v) = 0
  \/ pc = "e288" /\ Len(a.v) < 8

\* np.clip(x, -32768, 32767): NaN stays NaN.
Clip(x) ==
  IF x = NaN THEN NaN
  ELSE IF x < 2 * Int16Min THEN 2 * Int16Min
  ELSE IF x > 2 * Int16Max THEN 2 * Int16Max
  ELSE x

\* float -> int16, truncating towards zero
Trunc(x) == IF x >= 0 THEN 2 * (x \div 2) ELSE -(2 * ((-x) \div 2))

\* (mutation: line 291 is missing, the float array is returned as it is)
ClipConvert_None(x) == {x}

\* np.clip(...).astype(np.int16) for one sample: the values the conversion
\* can give.  Converting NaN to an integer is undefined in C; the result is
\* some int16 value.
ClipConvert(x) == IF x = NaN THEN Int16Reps ELSE { Trunc(Clip(x)) }

\* (mutation: the except clause returns the array computed so far)
FailClosed_Partial(original, partial) == partial

\* except Exception as e: ... return audio_data
FailClosed(original, partial) == original

\* ------------------------------------------------------------------- Init
\* The server object after __init__, before run(): no model, no socket, the
\* timeout thread not created; the main thread is about to load the model.
ServerInit ==
  /\ is_recording = FALSE
  /\ audio_buffer = <<>>
  /\ last_audio_time = 0
  /\ debug_save_audio \in BOOLEAN
  /\ config = LoadedConfig
  /\ whisper_model = FALSE /\ udp_socket = "none"
  /\ pcR = "load" /\ data = <<>> /\ current_time = 0 /\ sliced = <<>>
  /\ pcC = "unstarted" /\ audio_data = <<>> /\ audio_array = <<>>
  /\ processed_audio = <<>> /\ result_text = <<>> /\ transcribed_text = <<>>
  /\ now = 1 /\ npkts = 0 /\ nextId = 1
  /\ post = <<>> /\ dump = <<>> /\ handed = {} /\ truncated = {}
  /\ closes = 0 /\ truncHappened = FALSE /\ gapsShort = TRUE
  /\ closedSince = FALSE /\ seqStart = 1
  /\ oldBuffer = <<>> /\ bufChanged = FALSE
  /\ tcalls = <<>> /\ transcribe_raised = "never" /\ rxErr = FALSE
  /\ inflight = 0

\* No call of enhance_audio_quality on sample values is being followed.
CondOff ==
  /\ epc = "off" /\ enh_input = NoArray /\ enh_cur = NoArray
  /\ enh_result = NoArray /\ heard = NoArray
  /\ applied = <<>> /\ fed = TRUE

\* A session as __init__ creates it (lines 37-40), with what was logged
\* (line 109), the sender of every datagram handled, and the segments closed.
NewRun ==
  [is_recording |-> FALSE, audio_buffer |-> <<>>, last_audio_time |-> 0,
   logged |-> <<>>, senders |-> <<>>, segments |-> <<>>]

PairOff ==
  /\ pairOn = FALSE /\ runA = NewRun /\ runB = NewRun
  /\ ptime = 0 /\ pnext = 0 /\ pcount = 0

NumOff ==
  npc = "off" /\ nx = <<>> /\ ny = <<>> /\ ndiv = FALSE /\ ngain = <<>>

CapOff ==
  /\ cap_pcM = "off" /\ cap_pcC = "off"
  /\ cap_is_recording = FALSE /\ cap_audio_buffer = <<>>
  /\ cap_last_audio_time = 0 /\ cap_running = FALSE
  /\ cap_data = <<>> /\ cap_current_time = 0 /\ cap_now = 0
  /\ cap_npkts = 0 /\ cap_nextId = 0 /\ cap_rec = 0 /\ cap_saves = <<>>

Init == ServerInit /\ CondOff /\ PairOff /\ NumOff /\ CapOff

\* The session is IDLE as __init__ and the finally clause leave it, and no
\* close is in progress: a datagram arriving now starts a new sequence.
SessionIdle ==
  /\ pcC = "sleep" /\ ~is_recording
  /\ audio_buffer = <<>> /\ last_audio_time = 0

\* process_audio_buffer has taken its copy of the buffer and not yet returned
Closing == pcC \notin {"sleep", "p149", "p157"}

\* ---------------------------------------------------- startup (run, 377-395)
\* (mutation: a failing startup stage is logged and startup goes on)
OnStartupError_Swallowed(stage) ==
  IF stage = "load" THEN "bind" ELSE IF stage = "bind" THEN "start"
  ELSE "recvfrom"

\* load_whisper_model and start_udp_server log and re-raise (lines 78-80,
\* 100-102); run catches the exception (390-391), closes the socket if there
\* is one (392-395) and returns: the process ends.
OnStartupError(stage) == "exited"

\* self.load_whisper_model(): whisper.load_model returns a model or raises.
LoadModel ==
  /\ pcR = "load"
  /\ \/ whisper_model' = TRUE /\ pcR' = "bind"
     \/ whisper_model' = whisper_model /\ pcR' = OnStartupError("load")
  /\ UNCHANGED <<shared, data, current_time, sliced, clocals, env, hist,
                 tcalls, inflight, transcribe_raised, rxErr, udp_socket, cond, pair, num, cap>>

\* socket.socket(...) ; self.udp_socket.bind(('0.0.0.0', self.audio_port)).
\* Either call may raise; a socket that was created is closed by run's
\* finally clause.
BindSocket ==
  /\ pcR = "bind"
  /\ \/ udp_socket' = "bound" /\ pcR' = "start"
     \/ udp_socket' = udp_socket /\ pcR' = OnStartupError("bind")
     \/ udp_socket' = "closed" /\ pcR' = OnStartupError("bind")
  /\ UNCHANGED <<shared, data, current_time, sliced, clocals, env, hist,
                 tcalls, inflight, transcribe_raised, rxErr, whisper_model,
                 cond, pair, num, cap>>

\* timeout_thread = threading.Thread(target=self.check_audio_timeout,
\* daemon=True); timeout_thread.start() ; then the while loop is entered.
\* start() raises RuntimeError when no thread can be created.
StartChecker ==
  /\ pcR = "start"
  /\ \/ pcC' = "sleep" /\ pcR' = "recvfrom" /\ udp_socket' = udp_socket
     \/ pcC' = pcC /\ pcR' = OnStartupError("start") /\ udp_socket' = "closed"
  /\ UNCHANGED <<shared, data, current_time, sliced, audio_data, audio_array,
                 processed_audio, result_text, transcribed_text, env, hist,
                 tcalls, inflight, transcribe_raised, rxErr, whisper_model,
                 cond, pair, num, cap>>

Startup == LoadModel \/ BindSocket \/ StartChecker

\* ------------------------------------------------ receive loop (thread R)
\* (mutation: the exception leaves the while loop)
LoopExcept_Propagates == "exited"

\* except Exception as e: logger.error(...)  inside the while loop (97-98):
\* the loop goes round again.
LoopExcept == "recvfrom"

\* self.udp_socket.recvfrom(4096) raises (an OSError of the socket layer):
\* one receive attempt is used up and nothing is handled.
RecvError ==
  /\ pcR = "recvfrom" /\ npkts < MaxPackets
  /\ npkts' = npkts + 1
  /\ rxErr' = TRUE
  /\ pcR' = LoopExcept
  /\ UNCHANGED <<shared, data, current_time, sliced, clocals, now, nextId,
                 hist, tcalls, inflight, transcribe_raised, boot, cond, pair, num, cap>>

\* data, addr = recvfrom(4096); handle_audio_data: current_time = time.time()
Recv ==
  /\ pcR = "recvfrom" /\ npkts < MaxPackets
  /\ \E n \in PacketSizes :
       /\ data' = [ i \in 1..n |-> nextId + i - 1 ]
       /\ nextId' = nextId + n
  /\ current_time' = now
  /\ npkts' = npkts + 1
  /\ pcR' = "h108"
  /\ closes' = 0
  /\ IF SessionIdle
       THEN /\ gapsShort' = TRUE /\ seqStart' = nextId
            /\ closedSince' = FALSE /\ truncHappened' = FALSE
       ELSE /\ gapsShort' = (gapsShort /\ now - current_time < audio_timeout)
            /\ UNCHANGED <<seqStart, closedSince, truncHappened>>
  /\ UNCHANGED <<shared, sliced, clocals, now, post, dump, handed, truncated,
                 oldBuffer, bufChanged, boot, cond, pair, num, cap,
                 tcalls, inflight, transcribe_raised, rxErr>>

\* if not self.is_recording: self.is_recording = True
H108 ==
  /\ pcR = "h108"
  /\ IF ~is_recording
       THEN is_recording' = TRUE /\ pcR' = "h113"
       ELSE is_recording' = is_recording /\ pcR' = "h118"
  /\ UNCHANGED <<audio_buffer, last_audio_time, debug_save_audio, config, data,
                 current_time, sliced, clocals, env, hist, boot, cond, pair, num, cap,
                 tcalls, inflight, transcribe_raised, rxErr>>

\* self.audio_buffer.clear()
H113 ==
  /\ pcR = "h113"
  /\ audio_buffer' = <<>>
  /\ bufChanged' = Closing
  /\ pcR' = "h118"
  /\ UNCHANGED <<is_recording, last_audio_time, debug_save_audio, config, data,
                 current_time, sliced, clocals, env, post, dump, handed,
                 truncated, closes, truncHappened, gapsShort, closedSince, seqStart,
                 oldBuffer, boot, cond, pair, num, cap,
                 tcalls, inflight, transcribe_raised, rxErr>>

\* self.audio_buffer.extend(data)
H118 ==
  /\ pcR = "h118"
  /\ audio_buffer' = audio_buffer \o data
  /\ oldBuffer' = audio_buffer
  /\ bufChanged' = Closing
  /\ pcR' = "h119"
  /\ UNCHANGED <<is_recording, last_audio_time, debug_save_audio, config, data,
                 current_time, sliced, clocals, env, post, dump, handed,
                 truncated, closes, truncHappened, gapsShort, closedSince, seqStart, boot, cond, pair, num, cap,
                 tcalls, inflight, transcribe_raised, rxErr>>

\* self.last_audio_time = current_time
H119 ==
  /\ pcR = "h119"
  /\ last_audio_time' = current_time
  /\ pcR' = "h125"
  /\ UNCHANGED <<is_recording, audio_buffer, debug_save_audio, config, data,
                 current_time, sliced, clocals, env, hist, boot, cond, pair, num, cap,
                 tcalls, inflight, transcribe_raised, rxErr>>

\* if len(self.audio_buffer) > max_buffer_size  (else the handler returns)
\* (mutation: an overflow lowers the sample rate)
H125_Reconfigures ==
  /\ pcR = "h125"
  /\ IF TooLarge(audio_buffer)
       THEN /\ pcR' = "h129" /\ data' = data /\ oldBuffer' = oldBuffer
            /\ config' = [config EXCEPT !.sample_rate = 1]
       ELSE /\ pcR' = "recvfrom" /\ data' = <<>> /\ oldBuffer' = <<>>
            /\ config' = config
  /\ rxErr' = (rxErr /\ TooLarge(audio_buffer))
  /\ UNCHANGED <<is_recording, audio_buffer, last_audio_time,
                 debug_save_audio, current_time, sliced, clocals, env, post,
                 dump, handed, truncated, closes, truncHappened, gapsShort,
                 closedSince, seqStart, bufChanged, boot, cond, pair, num, cap,
                 tcalls, inflight, transcribe_raised>>

H125 ==
  /\ pcR = "h125"
  /\ IF TooLarge(audio_buffer)
       THEN pcR' = "h129" /\ data' = data /\ oldBuffer' = oldBuffer
       ELSE pcR' = "recvfrom" /\ data' = <<>> /\ oldBuffer' = <<>>
  /\ rxErr' = (rxErr /\ TooLarge(audio_buffer))
  /\ UNCHANGED <<shared, current_time, sliced, clocals, env, post, dump,
                 handed, truncated, closes, truncHappened, gapsShort,
                 closedSince, seqStart, bufChanged, boot, cond, pair, num, cap,
                 tcalls, inflight, transcribe_raised>>

\* self.audio_buffer[-keep_size:]   (the right-hand side is evaluated)
H129 ==
  /\ pcR = "h129"
  /\ sliced' = LastN(audio_buffer, keep_size)
  /\ truncated' = truncated \cup
                    (Range(audio_buffer) \ Range(LastN(audio_buffer, keep_size)))
  /\ pcR' = "h129w"
  /\ UNCHANGED <<shared, data, current_time, clocals, env, post, dump,
                 handed, closes, truncHappened, gapsShort, closedSince, seqStart,
                 oldBuffer, bufChanged, boot, cond, pair, num, cap,
                 tcalls, inflight, transcribe_raised, rxErr>>

\* self.audio_buffer = <the slice> ; the handler returns
H129w ==
  /\ pcR = "h129w"
  /\ audio_buffer' = sliced
  /\ truncHappened' = TRUE
  /\ bufChanged' = Closing
  /\ pcR' = "recvfrom"
  /\ sliced' = <<>> /\ data' = <<>> /\ oldBuffer' = <<>>
  /\ rxErr' = FALSE
  /\ UNCHANGED <<is_recording, last_audio_time, debug_save_audio, config,
                 current_time, clocals, env, post, dump, handed, truncated,
                 closes, gapsShort, closedSince, seqStart, boot, cond, pair, num, cap,
                 tcalls, inflight, transcribe_raised>>

\* The try block of handle_audio_data raises: bytearray.extend (line 118) or
\* the slice of line 129 cannot allocate (MemoryError); the buffer is left as
\* it was.  Control goes to the except clause of line 131.
HRaise ==
  /\ pcR \in {"h118", "h129"}
  /\ pcR' = "h134"
  /\ UNCHANGED <<shared, data, current_time, sliced, clocals, env, hist, boot,
                 cond, pair, num, cap, tcalls, inflight, transcribe_raised, rxErr>>

\* except Exception as e: ... self.is_recording = False
H134 ==
  /\ pcR = "h134"
  /\ is_recording' = FALSE
  /\ pcR' = "h135"
  /\ UNCHANGED <<audio_buffer, last_audio_time, debug_save_audio, config, data,
                 current_time, sliced, clocals, env, hist, boot, cond, pair, num, cap,
                 tcalls, inflight, transcribe_raised, rxErr>>

\* self.audio_buffer = bytearray() ; the handler returns
H135 ==
  /\ pcR = "h135"
  /\ audio_buffer' = <<>>
  /\ bufChanged' = Closing
  /\ pcR' = "recvfrom"
  /\ sliced' = <<>> /\ data' = <<>> /\ oldBuffer' = <<>>
  /\ rxErr' = FALSE
  /\ UNCHANGED <<is_recording, last_audio_time, debug_save_audio, config,
                 current_time, clocals, env, post, dump, handed, truncated,
                 closes, truncHappened, gapsShort, closedSince, seqStart, boot,
                 cond, pair, num, cap, tcalls, inflight, transcribe_raised>>

HandlerFault == HRaise \/ H134 \/ H135

Receiver ==
  Recv \/ RecvError \/ H108 \/ H113 \/ H118 \/ H119 \/ H125 \/ H129 \/ H129w

\* --------------------------------------------- timeout checker (thread C)
\* save_audio_debug(prefix): nothing is written for an empty buffer, and
\* np.frombuffer raises (caught inside) for an odd number of bytes;
\* otherwise the CURRENT self.audio_buffer is written to a WAV file.
SaveAudioDebug(buf, prefix) ==
  IF Len(buf) = 0 \/ Len(buf) % 2 # 0
    THEN dump
    ELSE Append(dump, [prefix |-> prefix, bytes |-> ToBytes(FromBuffer(buf))])

\* One poll of check_audio_timeout that finds the recording timed out and
\* calls process_audio_buffer.  (A poll that finds nothing changes nothing.)
CheckTimeout ==
  /\ pcC = "sleep"
  /\ is_recording /\ last_audio_time > 0
  /\ TimedOut(now, last_audio_time)
  /\ pcC' = "p149"
  /\ closes' = Inc2(closes)
  /\ closedSince' = TRUE
  /\ UNCHANGED <<shared, rlocals, audio_data, audio_array, processed_audio,
                 result_text, transcribed_text, env, post, dump, handed,
                 truncated, truncHappened, gapsShort, seqStart, oldBuffer,
                 bufChanged, boot, cond, pair, num, cap,
                 tcalls, inflight, transcribe_raised, rxErr>>

\* (mutation: the test for an empty buffer never succeeds)
NoAudio_Never(b) == FALSE

\* len(self.audio_buffer) == 0
NoAudio(b) == Len(b) = 0

\* (mutation: nothing catches the exception; the thread dies)
ProcessExcept_Unhandled == "dead"

\* except Exception as e:  (line 203) catches whatever is raised inside the
\* try block of process_audio_buffer.
ProcessExcept == "p204"

\* (mutation: a POST that did not succeed is attempted again)
AfterSend_Retry(st) == IF st = 200 THEN "p214" ELSE "p195"

\* send_text_to_esp32 returns None whatever the status was, and after a
\* RequestException too; process_audio_buffer goes on to the finally clause.
AfterSend(st) == "p214"

\* if len(self.audio_buffer) == 0: return
P149 ==
  /\ pcC = "p149"
  /\ pcC' = IF NoAudio(audio_buffer) THEN "sleep" ELSE "p157"
  /\ UNCHANGED <<shared, rlocals, audio_data, audio_array, processed_audio,
                 result_text, transcribed_text, env, hist, boot, cond, pair, num, cap,
                 tcalls, inflight, transcribe_raised, rxErr>>

\* audio_data = bytes(self.audio_buffer)
\* audio_array = np.frombuffer(audio_data, dtype=np.int16)
\*     (ValueError for an odd number of bytes: control goes to except)
\* if len(audio_array) < self.sample_rate: return   (through finally)
\* Only the first statement touches the shared object; the other two work
\* on the private copy.
P157 ==
  /\ pcC = "p157"
  /\ audio_data' = audio_buffer
  /\ handed' = handed \cup Range(audio_buffer)
  /\ bufChanged' = FALSE
  /\ IF Len(audio_buffer) % 2 # 0
       THEN audio_array' = audio_array /\ pcC' = ProcessExcept
       ELSE /\ audio_array' = FromBuffer(audio_buffer)
            /\ pcC' = IF Insufficient(FromBuffer(audio_buffer))
                        THEN "p214" ELSE "p168"
  /\ UNCHANGED <<shared, rlocals, processed_audio, result_text,
                 transcribed_text, env, post, dump, truncated, closes,
                 truncHappened, gapsShort, closedSince, seqStart, oldBuffer, boot, cond, pair, num, cap,
                 tcalls, inflight, transcribe_raised, rxErr>>

\* processed_audio = self.enhance_audio_quality(audio_array)
\* The conditioner returns either the enhanced samples or, when a stage
\* raised, its input; it never raises itself.
P168 ==
  /\ pcC = "p168"
  /\ \E ok \in BOOLEAN :
       processed_audio' = <<[samples |-> audio_array, enhanced |-> ok]>>
  /\ pcC' = "p175"
  /\ UNCHANGED <<shared, rlocals, audio_data, audio_array, result_text,
                 transcribed_text, env, hist, boot, cond, pair, num, cap,
                 tcalls, inflight, transcribe_raised, rxErr>>

\* result = self.whisper_model.transcribe(audio_float, ...)
\* transcribed_text = result['text'].strip()
\* if transcribed_text and len(transcribed_text) > 2
\* The service returns some text, or raises (control goes to except).
\* (mutation: the call is handed to another thread and the poll resumes)
AfterCallBegins_Async == "sleep"

\* self.whisper_model.transcribe(...) is an ordinary call: the thread that
\* makes it is inside the call until it returns or raises.
AfterCallBegins == "p175w"

\* The call of line 175 begins.
P175 ==
  /\ pcC = "p175"
  /\ tcalls' = Append(tcalls, Len(processed_audio[1].samples))
  /\ inflight' = inflight + 1
  /\ pcC' = AfterCallBegins
  /\ UNCHANGED <<shared, rlocals, audio_data, audio_array, processed_audio,
                 result_text, transcribed_text, env, hist, boot, cond, pair, num, cap,
                 transcribe_raised, rxErr>>

\* The call of line 175 returns a text or raises.
P175w ==
  /\ pcC = "p175w"
  /\ inflight' = inflight - 1
  /\ tcalls' = tcalls
  /\ \/ \E t \in Texts :
          /\ result_text' = t
          /\ transcribed_text' = Strip(t)
          /\ pcC' = IF Accepted(Strip(t)) THEN "p195" ELSE "p197"
          /\ transcribe_raised' = transcribe_raised
     \/ /\ result_text' = result_text
        /\ transcribed_text' = transcribed_text
        /\ pcC' = ProcessExcept
        /\ transcribe_raised' = "now"
  /\ UNCHANGED <<shared, rlocals, audio_data, audio_array, processed_audio,
                 env, hist, boot, cond, pair, num, cap, rxErr>>

\* if response.status_code == 200: logger.info("Successfully sent ...")
\* else: logger.error(...); a RequestException (0) is logged as an error too.
LoggedAs(st) == IF st = 200 THEN "info" ELSE "error"

\* self.send_text_to_esp32(transcribed_text): one requests.post; a
\* RequestException and a non-200 status are logged inside.
P195 ==
  /\ pcC = "p195"
  /\ \E st \in PostOutcomes :
       /\ post' = Append(post, [text |-> transcribed_text, status |-> st,
                                logged |-> LoggedAs(st)])
       /\ pcC' = AfterSend(st)
  /\ UNCHANGED <<shared, rlocals, audio_data, audio_array, processed_audio,
                 result_text, transcribed_text, env, dump, handed, truncated,
                 closes, truncHappened, gapsShort, closedSince, seqStart, oldBuffer,
                 bufChanged, boot, cond, pair, num, cap,
                 tcalls, inflight, transcribe_raised, rxErr>>

\* else: if debug_save: self.save_audio_debug("no_speech_detected")
P197 ==
  /\ pcC = "p197"
  /\ dump' = IF debug_save_audio
               THEN SaveAudioDebug(audio_buffer, "no_speech_detected")
               ELSE dump
  /\ pcC' = "p214"
  /\ UNCHANGED <<shared, rlocals, audio_data, audio_array, processed_audio,
                 result_text, transcribed_text, env, post, handed, truncated,
                 closes, truncHappened, gapsShort, closedSince, seqStart, oldBuffer,
                 bufChanged, boot, cond, pair, num, cap,
                 tcalls, inflight, transcribe_raised, rxErr>>

\* except Exception: ... self.save_audio_debug("processing_error")
P204 ==
  /\ pcC = "p204"
  /\ dump' = SaveAudioDebug(audio_buffer, "processing_error")
  /\ pcC' = "p214"
  /\ UNCHANGED <<shared, rlocals, audio_data, audio_array, processed_audio,
                 result_text, transcribed_text, env, post, handed, truncated,
                 closes, truncHappened, gapsShort, closedSince, seqStart, oldBuffer,
                 bufChanged, boot, cond, pair, num, cap,
                 tcalls, inflight, transcribe_raised, rxErr>>

\* finally: self.is_recording = False
P214 ==
  /\ pcC = "p214"
  /\ is_recording' = FALSE
  /\ pcC' = "p217"
  /\ UNCHANGED <<audio_buffer, last_audio_time, debug_save_audio, config, rlocals,
                 audio_data, audio_array, processed_audio, result_text,
                 transcribed_text, env, hist, boot, cond, pair, num, cap,
                 tcalls, inflight, transcribe_raised, rxErr>>

\* finally: self.audio_buffer.clear()
P217 ==
  /\ pcC = "p217"
  /\ audio_buffer' = <<>>
  /\ pcC' = "p221"
  /\ UNCHANGED <<is_recording, last_audio_time, debug_save_audio, config, rlocals,
                 audio_data, audio_array, processed_audio, result_text,
                 transcribed_text, env, hist, boot, cond, pair, num, cap,
                 tcalls, inflight, transcribe_raised, rxErr>>

\* finally: self.last_audio_time = 0 ; process_audio_buffer returns and
\* its locals die.
P221 ==
  /\ pcC = "p221"
  /\ last_audio_time' = 0
  /\ pcC' = "sleep"
  /\ audio_data' = <<>> /\ audio_array' = <<>> /\ processed_audio' = <<>>
  /\ result_text' = <<>> /\ transcribed_text' = <<>>
  /\ post' = <<>> /\ dump' = <<>> /\ bufChanged' = FALSE
  /\ tcalls' = <<>>
  /\ transcribe_raised' =
       IF transcribe_raised = "now" THEN "before" ELSE transcribe_raised
  /\ UNCHANGED <<is_recording, audio_buffer, debug_save_audio, config, rlocals, env,
                 handed, truncated, closes, truncHappened, gapsShort,
                 closedSince, seqStart, oldBuffer, boot, cond, pair, num, cap, rxErr,
                 inflight>>

Checker == CheckTimeout \/ P149 \/ P157 \/ P168 \/ P175 \/ P175w \/ P195 \/ P197
             \/ P204 \/ P214 \/ P217 \/ P221

\* ------------------------------------------------------------------ clock
\* One second passes.  handle_audio_data is never in progress for a whole
\* second, so the receive loop is in recvfrom whenever the clock advances.
Tick ==
  /\ now < MaxTime
  /\ pcR = "recvfrom"
  /\ now' = now + 1
  /\ UNCHANGED <<shared, rlocals, clocals, npkts, nextId, hist, boot, cond, pair, num, cap,
                 tcalls, inflight, transcribe_raised, rxErr>>

Next == Startup \/ Receiver \/ Checker \/ Tick

Spec == Init /\ [][Next]_vars

\* The checker thread always gets to run, and time passes.
LiveSpec == Spec /\ WF_vars(Checker) /\ WF_vars(Tick)

\* The same server when the try block of handle_audio_data can raise.
FaultNext == Next \/ HandlerFault

FaultSpec == Init /\ [][FaultNext]_vars

\* ------------------------------------------- two runs, different senders
\* handle_audio_data and one poll of check_audio_timeout as functions of the
\* session, each run alone on its thread, applied to two sessions that get
\* the same payloads at the same times from senders of their own.
Senders == {"esp32", "other"}

\* Datagram sizes of the two runs: those of PacketSizes, one that fills the
\* buffer to exactly the cap after a large one, and a large odd one.
PairSizes ==
  PacketSizes \cup
    { MaxSeconds * sample_rate * 2 - BigHalfSeconds * sample_rate,
      BigHalfSeconds * sample_rate + 1 }

\* (mutation: a datagram from another sender than the one that started the
\* recording starts a new recording)
StartsRecording_PerSender(s, addr) ==
  \/ ~s.is_recording
  \/ s.logged # <<>> /\ addr # s.logged[Len(s.logged)]

\* if not self.is_recording
StartsRecording(s, addr) == ~s.is_recording

\* handle_audio_data(data, addr) at time t (lines 104-129)
HandleAudioData(s, d, addr, t) ==
  LET s1 == IF StartsRecording(s, addr)
            THEN [s EXCEPT !.logged = Append(@, addr),
                           !.is_recording = TRUE,
                           !.audio_buffer = <<>>]
            ELSE s
      s2 == [s1 EXCEPT !.audio_buffer = @ \o d,
                       !.last_audio_time = t,
                       !.senders = Append(@, addr)]
  IN  IF TooLarge(s2.audio_buffer)
      THEN [s2 EXCEPT !.audio_buffer = LastN(@, keep_size)]
      ELSE s2

\* One poll of check_audio_timeout at time t (lines 141-145) with the
\* process_audio_buffer it calls (lines 149-157, 213-221); the segment is the
\* copy of line 157.
PollTimeout(s, t) ==
  IF s.is_recording /\ s.last_audio_time > 0 /\ TimedOut(t, s.last_audio_time)
  THEN IF NoAudio(s.audio_buffer)
       THEN s
       ELSE [s EXCEPT !.segments = Append(@, s.audio_buffer),
                      !.is_recording = FALSE,
                      !.audio_buffer = <<>>,
                      !.last_audio_time = 0]
  ELSE s

\* Everything of a session but the senders and the log line.
SessionOf(s) ==
  <<s.is_recording, s.audio_buffer, s.last_audio_time, s.segments>>

PairRest ==
  UNCHANGED <<shared, rlocals, clocals, env, hist, tcalls, inflight, transcribe_raised,
              rxErr, boot, cond, pairOn, num, cap>>

\* The same datagram reaches both runs, from a sender of each run's own.
PairRecv ==
  /\ pairOn /\ pcount < MaxPackets
  /\ \E n \in PairSizes, a \in Senders, b \in Senders :
       LET d == [ i \in 1..n |-> pnext + i - 1 ]
       IN  /\ runA' = HandleAudioData(runA, d, a, ptime)
           /\ runB' = HandleAudioData(runB, d, b, ptime)
           /\ pnext' = pnext + n
  /\ pcount' = pcount + 1
  /\ UNCHANGED ptime
  /\ PairRest

\* The poll of the timeout thread, in both runs at the same time.
PairPoll ==
  /\ pairOn
  /\ runA' = PollTimeout(runA, ptime)
  /\ runB' = PollTimeout(runB, ptime)
  /\ <<runA', runB'>> # <<runA, runB>>
  /\ UNCHANGED <<ptime, pnext, pcount>>
  /\ PairRest

PairTick ==
  /\ pairOn /\ ptime < MaxTime
  /\ ptime' = ptime + 1
  /\ UNCHANGED <<runA, runB, pnext, pcount>>
  /\ PairRest

PairInit ==
  /\ ServerInit /\ debug_save_audio = FALSE /\ CondOff /\ NumOff /\ CapOff
  /\ pairOn = TRUE /\ runA = NewRun /\ runB = NewRun
  /\ ptime = 1 /\ pnext = 1 /\ pcount = 0

PairNext == PairRecv \/ PairPoll \/ PairTick

PairSpec == PairInit /\ [][PairNext]_vars

\* ====================================================================
\* enhance_audio_quality on sample values (lines 269-298) and its caller
\* ====================================================================
\* audio_data.astype(np.float64), or the conversion raises (MemoryError).
E273 ==
  /\ epc = "e273"
  /\ \/ enh_cur' = AsFloat(enh_input) /\ epc' = "e276"
     \/ enh_cur' = enh_cur /\ epc' = "e297"
  /\ UNCHANGED <<shared, rlocals, clocals, env, hist, tcalls, inflight,
                 transcribe_raised, rxErr, boot, pair, num, cap, enh_input, enh_result, heard, applied, fed>>

\* One of the five stages: it returns an array of the same length (every
\* stage works sample by sample, and filtfilt returns the shape of its
\* input) whose values are some floats, or it raises.
EStage ==
  /\ epc \in {"e276", "e279", "e282", "e285", "e288"}
  /\ LET first == AsFloat(enh_input)
         arg == StageInput(first, enh_cur)
     IN  \/ /\ ~MustRaise(epc, arg)
            /\ enh_cur' \in Arr("float64", Len(arg.v), FloatReps)
            /\ epc' = StageAfter(epc)
            /\ applied' = Append(applied, StageName(epc))
            /\ fed' = (fed /\ arg = enh_cur)
         \/ /\ enh_cur' = enh_cur /\ epc' = "e297"
            /\ UNCHANGED <<applied, fed>>
  /\ UNCHANGED <<shared, rlocals, clocals, env, hist, tcalls, inflight,
                 transcribe_raised, rxErr, boot, pair, num, cap, enh_input, enh_result, heard>>

\* audio_enhanced = np.clip(audio_enhanced, -32768, 32767).astype(np.int16)
E291 ==
  /\ epc = "e291"
  /\ \/ /\ enh_cur' \in
             { a \in Arr("int16", Len(enh_cur.v),
                         UNION { ClipConvert(x) : x \in Range(enh_cur.v) }) :
                 \A i \in 1..Len(a.v) : a.v[i] \in ClipConvert(enh_cur.v[i]) }
        /\ epc' = "e294"
        /\ applied' = Append(applied, StageName(epc))
     \/ enh_cur' = enh_cur /\ epc' = "e297" /\ applied' = applied
  /\ UNCHANGED <<shared, rlocals, clocals, env, hist, tcalls, inflight,
                 transcribe_raised, rxErr, boot, pair, num, cap, enh_input, enh_result, heard, fed>>

\* return audio_enhanced
E294 ==
  /\ epc = "e294"
  /\ enh_result' = enh_cur
  /\ epc' = "r294"
  /\ UNCHANGED <<shared, rlocals, clocals, env, hist, tcalls, inflight,
                 transcribe_raised, rxErr, boot, pair, num, cap, enh_input, enh_cur, heard, applied, fed>>

\* except Exception as e: logger.warning(...); return audio_data
E297 ==
  /\ epc = "e297"
  /\ enh_result' = FailClosed(enh_input, enh_cur)
  /\ epc' = "r298"
  /\ UNCHANGED <<shared, rlocals, clocals, env, hist, tcalls, inflight,
                 transcribe_raised, rxErr, boot, pair, num, cap, enh_input, enh_cur, heard, applied, fed>>

\* The caller, process_audio_buffer lines 168-175:
\* audio_float = processed_audio.astype(np.float32) / 32768.0 is what
\* whisper_model.transcribe is given.
P171 ==
  /\ epc \in {"r294", "r298"}
  /\ heard' = [dtype |-> "float32",
               v |-> [ i \in 1..Len(enh_result.v) |->
                         <<enh_result.v[i], 2 * ScaleDiv>> ]]
  /\ epc' = IF epc = "r294" THEN "t294" ELSE "t298"
  /\ UNCHANGED <<shared, rlocals, clocals, env, hist, tcalls, inflight,
                 transcribe_raised, rxErr, boot, pair, num, cap, enh_input, enh_cur,
                 enh_result, applied, fed>>

\* A segment of int16 samples is about to be conditioned.
CondInit ==
  /\ ServerInit /\ debug_save_audio = FALSE /\ PairOff /\ NumOff /\ CapOff
  /\ epc = "e273"
  /\ enh_input \in UNION { Arr("int16", n, Int16Reps) : n \in CondLens }
  /\ enh_cur = NoArray /\ enh_result = NoArray /\ heard = NoArray
  /\ applied = <<>> /\ fed = TRUE

CondNext == E273 \/ EStage \/ E291 \/ E294 \/ E297 \/ P171

CondSpec == CondInit /\ [][CondNext]_vars

\* ====================================================================
\* The arithmetic of the conditioner stages (lines 325-375)
\* ====================================================================
\* Sample values are real numbers written in units of target_rms / 60
\* (target_rms = 0.15 * 32768, so 32768 is 400 units); a value computed by a
\* stage is a fraction <<numerator, denominator>> with a positive
\* denominator, or NaN.
TargetRms == 60
MaxGain == 3
FullScale == 400
Ratio == 4
KneeTenths == 7

Abs(x) == IF x < 0 THEN -x ELSE x
Sign(x) == IF x < 0 THEN -1 ELSE IF x > 0 THEN 1 ELSE 0

RatEq(a, b) == a[1] * b[2] = b[1] * a[2]
RatLe(a, b) == a[1] * b[2] <= b[1] * a[2]
RatAbs(a) == <<Abs(a[1]), a[2]>>
AsRat(x) == <<x, 1>>

RECURSIVE SumSq(_)
SumSq(a) == IF a = <<>> THEN 0 ELSE Head(a) * Head(a) + SumSq(Tail(a))

\* np.sqrt(np.mean(audio**2)), for the arrays where it is a whole number.
HasRms(a) ==
  Len(a) > 0 /\ \E r \in 0..FullScale : r * r * Len(a) = SumSq(a)

current_rms(a) == CHOOSE r \in 0..FullScale : r * r * Len(a) = SumSq(a)

\* (mutation: the gain is not limited)
AgcGain_Unlimited(rms) == <<TargetRms, rms>>

\* gain = target_rms / current_rms ; gain = min(gain, 3.0)
AgcGain(rms) ==
  LET gain == <<TargetRms, rms>>
  IN  IF RatLe(gain, AsRat(MaxGain)) THEN gain ELSE AsRat(MaxGain)

\* if current_rms > 0 (false also for the NaN that the mean of an empty
\* array is)
RmsPositive(a) == Len(a) > 0 /\ current_rms(a) > 0

\* apply_agc (lines 340-355)
apply_agc(audio) ==
  IF RmsPositive(audio)
    THEN LET gain == AgcGain(current_rms(audio))
         IN  [ i \in 1..Len(audio) |-> <<audio[i] * gain[1], gain[2]>> ]
    ELSE [ i \in 1..Len(audio) |-> AsRat(audio[i]) ]

\* Arrays of two samples whose root mean square is a whole number, from no
\* signal to full scale, and the empty array.
AgcValues == {-FullScale, -140, -20, -7, -1, 0, 1, 7, 20, 140, FullScale}

AgcInputs ==
  {<<>>} \cup { a \in [1..2 -> AgcValues] : HasRms(a) }

RECURSIVE Peak(_)
\* np.max(np.abs(audio)) of a non-empty array
Peak(a) ==
  IF Len(a) = 1 THEN Abs(a[1])
  ELSE LET m == Peak(Tail(a)) IN IF Abs(Head(a)) > m THEN Abs(Head(a)) ELSE m

\* threshold = 0.7 * np.max(np.abs(audio))
Threshold(a) == <<KneeTenths * Peak(a), 10>>

\* (mutation: the excess is multiplied by the ratio)
Compressed_Expanding(x, threshold) ==
  LET excess == <<Abs(x) * threshold[2] - threshold[1], threshold[2]>>
  IN  <<Sign(x) * (threshold[1] + excess[1] * Ratio), threshold[2]>>

\* excess = np.abs(x) - threshold
\* np.sign(x) * (threshold + excess / ratio)
Compressed(x, threshold) ==
  LET excess == <<Abs(x) * threshold[2] - threshold[1], threshold[2]>>
  IN  <<Sign(x) * (threshold[1] * Ratio + excess[1]), threshold[2] * Ratio>>

\* apply_compression (lines 325-338) on a non-empty array:
\* mask = np.abs(compressed) > threshold selects the samples replaced.
apply_compression(audio) ==
  LET threshold == Threshold(audio)
  IN  [ i \in 1..Len(audio) |->
          IF ~RatLe(AsRat(Abs(audio[i])), threshold)
            THEN Compressed(audio[i], threshold)
            ELSE AsRat(audio[i]) ]

\* Arrays of three samples: silence, samples at, just above and well above
\* 0.7 of the peak, of both signs; and the empty array.
CompressionValues == {-FullScale, -280, -100, 0, 100, 280, 281, FullScale}

CompressionInputs == {<<>>} \cup [1..3 -> CompressionValues]

\* A float division p / q: 0 / 0 is NaN (numpy warns and goes on), written
\* as a fraction with denominator 0.
FloatDiv(p, q) ==
  IF q[1] = 0 THEN <<p[1], 0>> ELSE <<p[1] * q[2], p[2] * q[1]>>

IsNaN(r) == r[2] = 0

\* window_size = min(512, len(audio) // 8)
WindowSize(a) == IF Len(a) \div 8 < 512 THEN Len(a) \div 8 ELSE 512

\* Index k of an array of n elements under mode='nearest'.
Nearest(k, n) == IF k < 1 THEN 1 ELSE IF k > n THEN n ELSE k

RECURSIVE WindowSum(_, _, _)
\* |a[from]| + ... + |a[from + count - 1]|, the ends repeated
WindowSum(a, from, count) ==
  IF count = 0 THEN 0
  ELSE Abs(a[Nearest(from, Len(a))]) + WindowSum(a, from + 1, count - 1)

\* smoothed = uniform_filter1d(np.abs(audio), size=window_size,
\* mode='nearest'): the mean of the window_size samples from
\* i - window_size // 2 on.
Smoothed(a, i) ==
  LET w == WindowSize(a) IN <<WindowSum(a, i - (w \div 2), w), w>>

\* signal_power = smoothed**2
SignalPower(a, i) ==
  LET s == Smoothed(a, i) IN <<s[1] * s[1], s[2] * s[2]>>

RECURSIVE PowerSum(_, _)
PowerSum(a, k) ==
  IF k = 0 THEN 0 ELSE SignalPower(a, k)[1] + PowerSum(a, k - 1)

\* noise_power = np.mean(signal_power[:window_size])
NoisePower(a) ==
  LET w == WindowSize(a) IN <<PowerSum(a, w), w * w * w>>

\* wiener_gain = signal_power / (signal_power + noise_power)
WienerGain(a, i) ==
  LET sp == SignalPower(a, i)
      np == NoisePower(a)
      total == <<sp[1] * np[2] + np[1] * sp[2], sp[2] * np[2]>>
  IN  FloatDiv(sp, total)

\* enhanced = audio * wiener_gain (a product with NaN is NaN)
wiener_filter(audio) ==
  [ i \in 1..Len(audio) |->
      LET g == WienerGain(audio, i) IN <<audio[i] * g[1], g[2]>> ]

\* Segments of 8 and 16 samples (windows of 1 and 2): a beginning of 1, 2 or
\* 4 equal samples and the rest equal, silence included; and a segment too
\* short for a window.
WienerValues == {-2, -1, 0, 1, 2}

WienerInputs ==
  {<<1, 1, 1, 1>>} \cup
  { [ i \in 1..n |-> IF i <= h THEN head ELSE rest ] :
      n \in {8, 16}, h \in {1, 2, 4},
      head \in WienerValues, rest \in WienerValues }

StageInputs == AgcInputs \cup CompressionInputs \cup WienerInputs

NumRest ==
  UNCHANGED <<shared, rlocals, clocals, env, hist, tcalls, inflight,
              transcribe_raised, rxErr, boot, cond, pair, nx, cap>>

NAgc ==
  /\ npc = "in" /\ nx \in AgcInputs
  /\ ny' = apply_agc(nx)
  /\ ndiv' = RmsPositive(nx)
  /\ ngain' = IF RmsPositive(nx) THEN <<AgcGain(current_rms(nx))>> ELSE <<>>
  /\ npc' = "apply_agc"
  /\ NumRest

\* np.max of an empty array raises ValueError.
NCompression ==
  /\ npc = "in" /\ nx \in CompressionInputs
  /\ IF Len(nx) = 0
       THEN ny' = <<>> /\ npc' = "raised"
       ELSE ny' = apply_compression(nx) /\ npc' = "apply_compression"
  /\ ndiv' = (\E i \in 1..Len(nx) : ~RatLe(AsRat(Abs(nx[i])), Threshold(nx)))
  /\ ngain' = <<>>
  /\ NumRest

\* uniform_filter1d raises for a window of size 0.
NWiener ==
  /\ npc = "in" /\ nx \in WienerInputs
  /\ IF WindowSize(nx) = 0
       THEN ny' = <<>> /\ ngain' = <<>> /\ npc' = "raised" /\ ndiv' = FALSE
       ELSE /\ ngain' = [ i \in 1..Len(nx) |-> WienerGain(nx, i) ]
            /\ ny' = wiener_filter(nx)
            /\ npc' = "wiener_filter"
            /\ ndiv' = TRUE
  /\ NumRest

StageInit ==
  /\ ServerInit /\ debug_save_audio = FALSE /\ CondOff /\ PairOff /\ CapOff
  /\ npc = "in" /\ nx \in StageInputs /\ ny = <<>> /\ ndiv = FALSE
  /\ ngain = <<>>

StageNext == NAgc \/ NCompression \/ NWiener

StageSpec == StageInit /\ [][StageNext]_vars

\* ------------------------------------------------ the capture variant
\* AudioCaptureServer (examples/audio_capture_test.py). The main thread
\* receives datagrams and appends them; a daemon thread saves the recording
\* after audio_timeout seconds of silence; an interrupt ends the receive
\* loop and runs stop_server. Each step is one access to the shared session.

CaptureTimeout == 3
CaptureSizes == {0, 1, 2}

CapRest ==
  UNCHANGED <<shared, rlocals, clocals, env, hist, tcalls, inflight,
              transcribe_raised, rxErr, boot, cond, pair, num>>

\* The bytes of a new datagram of n bytes.
CapBytes(n) == [i \in 1..n |-> cap_nextId + i]

\* Lines 36-49: bind, running = True, the timeout thread is started.
CapInit ==
  /\ ServerInit /\ debug_save_audio = FALSE /\ CondOff /\ PairOff /\ NumOff
  /\ cap_pcM = "recvfrom" /\ cap_pcC = "sleep"
  /\ cap_is_recording = FALSE /\ cap_audio_buffer = <<>>
  /\ cap_last_audio_time = 0 /\ cap_running = TRUE
  /\ cap_data = <<>> /\ cap_current_time = 0 /\ cap_now = 1
  /\ cap_npkts = 0 /\ cap_nextId = 0 /\ cap_rec = 0 /\ cap_saves = <<>>

\* Lines 51-56 and 72: a datagram arrives; current_time = time.time().
CapRecv ==
  /\ cap_pcM = "recvfrom" /\ cap_running /\ cap_npkts < MaxPackets
  /\ \E n \in CaptureSizes :
       /\ cap_data' = CapBytes(n)
       /\ cap_nextId' = cap_nextId + n
  /\ cap_current_time' = cap_now
  /\ cap_npkts' = cap_npkts + 1
  /\ cap_pcM' = "c74"
  /\ UNCHANGED <<cap_is_recording, cap_audio_buffer, cap_last_audio_time,
                 cap_running, cap_pcC, cap_now, cap_rec, cap_saves>>
  /\ CapRest

\* Lines 74-77: if not self.is_recording: self.is_recording = True.
Cap74 ==
  /\ cap_pcM = "c74"
  /\ IF cap_is_recording
       THEN /\ cap_pcM' = "c81"
            /\ UNCHANGED <<cap_is_recording, cap_rec>>
       ELSE /\ cap_is_recording' = TRUE
            /\ cap_rec' = cap_rec + 1
            /\ cap_pcM' = "c78"
  /\ UNCHANGED <<cap_audio_buffer, cap_last_audio_time, cap_running, cap_pcC,
                 cap_data, cap_current_time, cap_now, cap_npkts, cap_nextId,
                 cap_saves>>
  /\ CapRest

\* Line 78: self.audio_buffer.clear().
Cap78 ==
  /\ cap_pcM = "c78"
  /\ cap_audio_buffer' = <<>>
  /\ cap_pcM' = "c81"
  /\ UNCHANGED <<cap_is_recording, cap_last_audio_time, cap_running, cap_pcC,
                 cap_data, cap_current_time, cap_now, cap_npkts, cap_nextId,
                 cap_rec, cap_saves>>
  /\ CapRest

\* Line 81: self.audio_buffer.extend(data).
Cap81 ==
  /\ cap_pcM = "c81"
  /\ cap_audio_buffer' = cap_audio_buffer \o cap_data
  /\ cap_pcM' = "c82"
  /\ UNCHANGED <<cap_is_recording, cap_last_audio_time, cap_running, cap_pcC,
                 cap_data, cap_current_time, cap_now, cap_npkts, cap_nextId,
                 cap_rec, cap_saves>>
  /\ CapRest

\* Line 82: self.last_audio_time = current_time.
Cap82 ==
  /\ cap_pcM = "c82"
  /\ cap_last_audio_time' = cap_current_time
  /\ cap_pcM' = "recvfrom"
  /\ UNCHANGED <<cap_is_recording, cap_audio_buffer, cap_running, cap_pcC,
                 cap_data, cap_current_time, cap_now, cap_npkts, cap_nextId,
                 cap_rec, cap_saves>>
  /\ CapRest

\* The clock advances while the main thread waits in recvfrom.
CapTick ==
  /\ cap_pcM = "recvfrom" /\ cap_now < MaxTime
  /\ cap_now' = cap_now + 1
  /\ UNCHANGED <<cap_is_recording, cap_audio_buffer, cap_last_audio_time,
                 cap_running, cap_pcM, cap_pcC, cap_data, cap_current_time,
                 cap_npkts, cap_nextId, cap_rec, cap_saves>>
  /\ CapRest

\* Lines 100-149, save_audio_recording: returns at once on an empty buffer;
\* otherwise np.frombuffer(self.audio_buffer, dtype=np.int16) and the WAV
\* write, every Exception caught inside. An odd number of bytes makes
\* frombuffer raise; a write may fail. by is the caller.
SaveOutcomes(b) == IF Len(b) % 2 = 0 THEN {TRUE, FALSE} ELSE {FALSE}

save_audio_recording(by) ==
  IF cap_audio_buffer = <<>>
    THEN {cap_saves}
    ELSE { Append(cap_saves, [rec |-> cap_rec, bytes |-> cap_audio_buffer,
                              by |-> by, ok |-> ok]) :
             ok \in SaveOutcomes(cap_audio_buffer) }

\* Lines 90-94: the 0.1 s poll whose three conditions all hold.
Cap94 ==
  /\ cap_pcC = "sleep" /\ cap_pcM # "done" /\ cap_running
  /\ cap_is_recording /\ cap_last_audio_time > 0
  /\ cap_now - cap_last_audio_time > CaptureTimeout
  /\ cap_pcC' = "c96"
  /\ UNCHANGED <<cap_is_recording, cap_audio_buffer, cap_last_audio_time,
                 cap_running, cap_pcM, cap_data, cap_current_time, cap_now,
                 cap_npkts, cap_nextId, cap_rec, cap_saves>>
  /\ CapRest

\* Line 96: self.save_audio_recording().
Cap96 ==
  /\ cap_pcC = "c96" /\ cap_pcM # "done"
  /\ cap_saves' \in save_audio_recording("checker")
  /\ cap_pcC' = "c97"
  /\ UNCHANGED <<cap_is_recording, cap_audio_buffer, cap_last_audio_time,
                 cap_running, cap_pcM, cap_data, cap_current_time, cap_now,
                 cap_npkts, cap_nextId, cap_rec>>
  /\ CapRest

\* Line 97: self.is_recording = False.
Cap97 ==
  /\ cap_pcC = "c97" /\ cap_pcM # "done"
  /\ cap_is_recording' = FALSE
  /\ cap_pcC' = "c98"
  /\ UNCHANGED <<cap_audio_buffer, cap_last_audio_time, cap_running, cap_pcM,
                 cap_data, cap_current_time, cap_now, cap_npkts, cap_nextId,
                 cap_rec, cap_saves>>
  /\ CapRest

\* Line 98: self.last_audio_time = 0.
Cap98 ==
  /\ cap_pcC = "c98" /\ cap_pcM # "done"
  /\ cap_last_audio_time' = 0
  /\ cap_pcC' = "sleep"
  /\ UNCHANGED <<cap_is_recording, cap_audio_buffer, cap_running, cap_pcM,
                 cap_data, cap_current_time, cap_now, cap_npkts, cap_nextId,
                 cap_rec, cap_saves>>
  /\ CapRest

\* Line 90: while self.running ends once stop_server has cleared the flag.
CapCheckerExit ==
  /\ cap_pcC = "sleep" /\ cap_pcM # "done" /\ ~cap_running
  /\ cap_pcC' = "ended"
  /\ UNCHANGED <<cap_is_recording, cap_audio_buffer, cap_last_audio_time,
                 cap_running, cap_pcM, cap_data, cap_current_time, cap_now,
                 cap_npkts, cap_nextId, cap_rec, cap_saves>>
  /\ CapRest

\* Lines 161-164 and 180-185: the interrupt raises SystemExit in the main
\* thread, wherever it is, and main()'s finally calls stop_server; line 154
\* self.running = False.
CapInterrupt ==
  /\ cap_pcM \in {"recvfrom", "c74", "c78", "c81", "c82"}
  /\ cap_running' = FALSE
  /\ cap_pcM' = "c157"
  /\ UNCHANGED <<cap_is_recording, cap_audio_buffer, cap_last_audio_time,
                 cap_pcC, cap_data, cap_current_time, cap_now, cap_npkts,
                 cap_nextId, cap_rec, cap_saves>>
  /\ CapRest

\* Lines 157-159: if self.is_recording and len(self.audio_buffer) > 0:
\* self.save_audio_recording(); the process then ends.
Cap157 ==
  /\ cap_pcM = "c157"
  /\ IF cap_is_recording /\ Len(cap_audio_buffer) > 0
       THEN cap_saves' \in save_audio_recording("stop_server")
       ELSE cap_saves' = cap_saves
  /\ cap_pcM' = "done"
  /\ UNCHANGED <<cap_is_recording, cap_audio_buffer, cap_last_audio_time,
                 cap_running, cap_pcC, cap_data, cap_current_time, cap_now,
                 cap_npkts, cap_nextId, cap_rec>>
  /\ CapRest

CapNext ==
  \/ CapRecv \/ Cap74 \/ Cap78 \/ Cap81 \/ Cap82 \/ CapTick
  \/ Cap94 \/ Cap96 \/ Cap97 \/ Cap98 \/ CapCheckerExit
  \/ CapInterrupt \/ Cap157

CaptureSpec == CapInit /\ [][CapNext]_vars

\* ------------------------------------------------------------- type check
TypeOK ==
  /\ is_recording \in BOOLEAN
  /\ last_audio_time \in 0..MaxTime
  /\ now \in 1..MaxTime
  /\ npkts \in 0..MaxPackets
  /\ closes \in 0..2
  /\ whisper_model \in BOOLEAN
  /\ udp_socket \in {"none", "bound", "closed"}
  /\ transcribe_raised \in {"never", "now", "before"}

\* ====================================================================
\* Properties
\* ====================================================================
\* The payloads of the current sequence of datagrams (the one that began
\* with the session IDLE), concatenated in arrival order.
AllBytes == [ i \in 1..(nextId - seqStart) |-> seqStart + i - 1 ]

IsSuffix(s, t) ==
  /\ Len(s) <= Len(t)
  /\ \A i \in 1..Len(s) : s[i] = t[Len(t) - Len(s) + i]

\* Bytes that handle_audio_data still holds or has put into the buffer.
Pending ==
  Range(audio_buffer)
    \cup (IF pcR \in {"h108", "h113", "h118"} THEN Range(data) ELSE {})
    \cup (IF pcR = "h129w" THEN Range(sliced) ELSE {})

\* process_audio_buffer returns to the polling loop in this step.
ProcessReturns == pcC # "sleep" /\ pcC' = "sleep"

\* handle_audio_data returns from a call that truncated the buffer.
TruncatingStepEnds == pcR = "h129w" /\ pcR' = "recvfrom"

\* t is raw without its leading and trailing whitespace.
IsTrimOf(t, raw) ==
  /\ t = <<>> \/ (t[1] # WS /\ t[Len(t)] # WS)
  /\ \E i \in 0..Len(raw) :
       /\ i + Len(t) <= Len(raw)
       /\ \A k \in 1..Len(raw) :
            IF k > i /\ k <= i + Len(t) THEN raw[k] = t[k - i] ELSE raw[k] = WS

\* C1: whenever handle_audio_data is not in progress (every call made so far
\* has completed), the buffer holds at most max_buffer_size bytes.
C1_CapAfterIngestion ==
  pcR = "recvfrom" => Len(audio_buffer) <= max_buffer_size

\* C1 witness: a call that overflowed the cap has completed.
C1_Witness ==
  pcR = "recvfrom" /\ truncHappened /\ Len(audio_buffer) = keep_size

\* C2 (as claimed): no accepted byte disappears without having been handed to
\* processing or cut off by the overflow truncation: every byte received is
\* still held by the handler or the buffer, or was part of a segment copied
\* by process_audio_buffer, or was removed by truncation.
C2_NoSilentDrop ==
  \A b \in 1..(nextId - 1) : b \in Pending \cup handed \cup truncated

\* C3 (as claimed): whenever process_audio_buffer returns, the session is
\* reset: not recording, empty buffer, last_audio_time = 0.
C3_ResetOnReturn ==
  [][ProcessReturns =>
       (~is_recording' /\ audio_buffer' = <<>> /\ last_audio_time' = 0)]_vars

\* C4 (as claimed): if the session is recording, the handler is idle and no
\* further datagram arrives (the count of receive attempts stays k), the
\* session eventually stops recording.  (Only states from which the clock
\* can still run past the timeout are considered.)
C4_EventuallyIdle ==
  \A k \in 0..MaxPackets :
    [](  (is_recording /\ npkts = k /\ pcR = "recvfrom"
            /\ now + audio_timeout < MaxTime)
      => <>(~is_recording \/ npkts # k) )

C6_OncePerIdlePeriod == closes <= 1

\* C7: when the conditioner is about to be called, its argument is, byte
\* for byte, the copy taken from the buffer, no byte is missing from the
\* middle of it, and it is the buffer itself as long as handle_audio_data has
\* not touched the buffer since the copy was taken.
C7_ConditionerGetsBuffer ==
  pcC = "p168" =>
    /\ ToBytes(audio_array) = audio_data
    /\ \A i \in 1..(Len(audio_data) - 1) : audio_data[i + 1] = audio_data[i] + 1
    /\ ~bufChanged => ToBytes(audio_array) = audio_buffer

\* C7 witness: a recording that was truncated is closed and reaches the
\* conditioner with the buffer untouched since the copy.
C7_Witness ==
  /\ pcC = "p168" /\ ~bufChanged /\ truncHappened
  /\ Len(audio_array) * 2 = Len(audio_buffer) /\ Len(audio_array) > 0

\* C8 (as claimed): a truncating step leaves the last keep_size bytes of the
\* old buffer followed by the complete payload.
C8_TruncateThenAppend ==
  [][TruncatingStepEnds =>
       audio_buffer' = LastN(oldBuffer, keep_size) \o data]_vars

\* C8 (amended): a truncating step leaves the last keep_size bytes of (old
\* buffer followed by the payload), or nothing when process_audio_buffer
\* cleared the buffer between the length test and the slice.
C8_AppendThenTruncate ==
  [][TruncatingStepEnds =>
       \/ /\ Len(audio_buffer') = KeepSeconds * sample_rate * 2
          /\ IsSuffix(audio_buffer', oldBuffer \o data)
       \/ audio_buffer' = <<>>]_vars

\* C8 witness: the slice about to be stored is cut out of old buffer plus
\* payload, and differs from what truncate-then-append would give.
C8_Witness ==
  /\ pcR = "h129w" /\ oldBuffer # <<>>
  /\ Len(sliced) = KeepSeconds * sample_rate * 2
  /\ IsSuffix(sliced, oldBuffer \o data)
  /\ Len(data) < Len(sliced)

\* C9: the conditioner, the transcription service and the delivery sink are
\* reached only with a segment of at least sample_rate samples.
C9_ShortSegmentDiscarded ==
  (pcC \in {"p168", "p175", "p175w", "p195", "p197"}
     \/ processed_audio # <<>> \/ post # <<>>)
    => Len(audio_data) >= 2 * sample_rate

\* C9 witness: a non-empty, even-sized segment of less than one second is on
\* its way out through finally without any of the three having been called.
C9_Witness ==
  /\ pcC = "p214" /\ audio_data # <<>> /\ Len(audio_data) % 2 = 0
  /\ Len(audio_data) < 2 * sample_rate
  /\ processed_audio = <<>> /\ post = <<>>

\* C10: the text tested and sent is the service's text without surrounding
\* whitespace; it goes to the sink exactly when it is longer than 2.
C10_AcceptancePolicy ==
  /\ pcC \in {"p195", "p197"} => IsTrimOf(transcribed_text, result_text)
  /\ pcC = "p195" => Len(transcribed_text) > 2
  /\ pcC = "p197" => Len(transcribed_text) <= 2
  /\ post # <<>> =>
       /\ Len(post) = 1
       /\ post[1].text = transcribed_text
       /\ Len(transcribed_text) > 2
  /\ (pcC \in {"p214", "p217", "p221"} /\ Len(transcribed_text) > 2)
       => post # <<>>

\* A further reachable case of C5: a sequence that began after an earlier
\* recording was closed.
C5_LaterSequence ==
  /\ gapsShort /\ seqStart > 1 /\ pcR = "recvfrom" /\ is_recording
  /\ audio_buffer # <<>> /\ now > current_time

\* C10 witness: a text longer than 2 only with its whitespace was rejected.
C10_Witness ==
  /\ pcC = "p197" /\ Len(result_text) > 2 /\ Len(transcribed_text) = 2

\* C11 (as claimed): when process_audio_buffer has made all its calls for a
\* segment of at least one second (2 * sample_rate bytes), the transcription
\* service was invoked exactly once, with len(segment)/2 samples, and a text
\* that passed the acceptance test was sent in exactly one POST.
C11_TranscribedOnce ==
  (pcC = "p214" /\ Len(audio_data) >= 2 * sample_rate) =>
    /\ Len(tcalls) = 1
    /\ 2 * tcalls[1] = Len(audio_data)
    /\ Len(transcribed_text) > MinTextLen =>
         /\ Len(post) = 1
         /\ post[1].text = transcribed_text
         /\ post[1].text # <<>>

\* The datagram now being handled arrived after the checker had found the
\* silence gap and called process_audio_buffer, which has not yet returned:
\* it belongs to the next recording.
ArrivedAfterGap ==
  /\ pcR \notin {"load", "bind", "start", "recvfrom", "exited"}
  /\ closes = 0 /\ pcC \notin {"unstarted", "sleep"}
  /\ data # <<>>

\* C12 (as claimed): two recordings separated by a silence gap are
\* independent.  The segment copied by process_audio_buffer never holds bytes
\* of the recording that ended with the gap together with bytes of the
\* datagram that arrived after the gap; and whenever both threads are
\* between operations with the session recording, last_audio_time is the
\* arrival time of the latest datagram handled, not a value left by the
\* close of the earlier recording.
C12_RecordingsIndependent ==
  /\ (ArrivedAfterGap /\ Closing) =>
       \/ Range(audio_data) \cap Range(data) = {}
       \/ Range(audio_data) \subseteq Range(data)
  /\ (pcR = "recvfrom" /\ pcC = "sleep" /\ is_recording) =>
       last_audio_time = current_time

\* C13: enhance_audio_quality always returns.  When it returns through its
\* except clause the result is the very array it was given (same dtype, same
\* samples), and the caller goes on to hand that array, scaled by 1/32768,
\* to the transcription service.  A segment too short for the band-pass
\* filter (at most padlen samples) always takes this path.
C13_FailsClosed ==
  /\ epc \in {"e273", "e276", "e279", "e282", "e285", "e288", "e291", "e294",
              "e297", "r294", "r298", "t294", "t298"}
  /\ epc \in {"r298", "t298"} => enh_result = enh_input
  /\ epc = "t298" =>
       /\ Len(heard.v) = Len(enh_input.v)
       /\ \A i \in 1..Len(heard.v) :
            heard.v[i] = <<enh_input.v[i], 2 * ScaleDiv>>
  /\ epc \in {"e294", "r294", "t294"} => Len(enh_input.v) > PadLen

\* C13 witness: a stage raised after earlier stages had changed the samples,
\* and the caller is transcribing the original segment.
C13_Witness ==
  /\ epc = "t298" /\ enh_cur.dtype = "float64" /\ enh_cur.v # enh_input.v
  /\ Len(enh_input.v) > PadLen /\ Len(heard.v) = Len(enh_input.v)

\* C14: whenever enhance_audio_quality has returned, on either path, its
\* result has as many samples as its input and every sample is an integer
\* in [-32768, 32767].
C14_ShapeAndRange ==
  epc \in {"r294", "r298", "t294", "t298"} =>
    /\ Len(enh_result.v) = Len(enh_input.v)
    /\ \A i \in 1..Len(enh_result.v) :
         /\ enh_result.v[i] % 2 = 0
         /\ enh_result.v[i] >= 2 * Int16Min
         /\ enh_result.v[i] <= 2 * Int16Max

\* C14 witness: the success path returned a segment of more than padlen
\* samples that differs from its input and starts with the largest int16.
C14_Witness ==
  /\ epc = "r294" /\ Len(enh_result.v) = PadLen + 1
  /\ enh_result.v[1] = 2 * Int16Max /\ enh_result # enh_input

\* C15: the checker thread is always at a statement of check_audio_timeout
\* or process_audio_buffer (no exception has ended it).  From the moment the
\* transcription service raises until process_audio_buffer returns, control
\* is in the except or the finally clause and nothing has been sent to the
\* sink for the segment.
C15_TranscribeErrorCaught ==
  /\ pcC \in {"unstarted", "sleep", "p149", "p157", "p168", "p175", "p175w",
              "p195", "p197", "p204", "p214", "p217", "p221"}
  /\ transcribe_raised = "now" =>
       /\ pcC \in {"p204", "p214", "p217", "p221"}
       /\ post = <<>>
       /\ Len(tcalls) = 1

\* C15 witness: after a close in which the service raised, a later recording
\* was closed, transcribed, and its text is about to be sent.
C15_Witness ==
  /\ transcribe_raised = "before" /\ pcC = "p195"
  /\ seqStart > 1 /\ audio_data # <<>> /\ audio_data[1] = seqStart
  /\ Len(tcalls) = 1 /\ Len(transcribed_text) > MinTextLen

\* handle_audio_data has made its first access to the session (the test of
\* is_recording) and not yet its last.
Handling == pcR \in {"h113", "h118", "h119", "h125", "h129", "h129w"}

\* process_audio_buffer has made its first access to the session (the test
\* of the buffer's length) and not yet its last.
Processing ==
  pcC \in {"p157", "p168", "p175", "p175w", "p195", "p197", "p204", "p214",
           "p217", "p221"}

\* C16 (as claimed): handle_audio_data and process_audio_buffer exclude each
\* other: never are both between their first and last access to the
\* session, so no step of one runs between two steps of the other.
C16_Serialized == ~(Handling /\ Processing)

\* The checker thread takes a step.
CheckerSteps == pcC' # pcC

\* C17: in every step, at most one POST has been attempted for the segment
\* being closed; once it has been attempted, whatever its outcome, control
\* is in the finally clause (it is not attempted again); the attempt itself
\* changes nothing in the session; and the finally clause then does the same
\* reset for every outcome: is_recording false, buffer empty,
\* last_audio_time 0.
C17_FireAndForget ==
  [][ /\ Len(post') <= 1
      /\ post' # <<>> => pcC' \in {"p214", "p217", "p221"}
      /\ (pcC = "p195" /\ CheckerSteps) => (pcC' = "p214" /\ shared' = shared)
      /\ (post # <<>> /\ CheckerSteps) =>
           /\ pcC = "p214" => (~is_recording' /\ pcC' = "p217")
           /\ pcC = "p217" => (audio_buffer' = <<>> /\ pcC' = "p221")
           /\ pcC = "p221" => (last_audio_time' = 0 /\ pcC' = "sleep")
    ]_vars

\* C17 witness: the POST was answered with status 500 and the close is
\* completing with the session reset.
C17_Witness ==
  /\ pcC = "p221" /\ Len(post) = 1 /\ post[1].status = 500
  /\ ~is_recording /\ audio_buffer = <<>>

InLoop ==
  pcR \in {"recvfrom", "h108", "h113", "h118", "h119", "h125", "h129", "h129w"}

\* C19: a socket exists only if the model was loaded; the timeout thread was
\* started only if the socket is bound; the receive loop runs, and datagrams
\* are handled, only after the timeout thread was started; and the server
\* has exited only if startup failed, before the thread was started and
\* before any datagram: once the loop runs it is never left, whatever
\* conditioning, transcription and delivery do.
C19_StartupOrder ==
  /\ udp_socket # "none" => whisper_model
  /\ pcC # "unstarted" => (udp_socket = "bound" /\ whisper_model)
  /\ (InLoop \/ npkts > 0) => pcC # "unstarted"
  /\ pcC # "unstarted" => InLoop
  /\ pcR = "exited" =>
       /\ pcC = "unstarted" /\ npkts = 0 /\ udp_socket # "bound"
       /\ audio_buffer = <<>> /\ ~is_recording

\* C19 witness: the model was loaded, the bind failed, and the server has
\* exited without starting the timeout thread.
C19_Witness ==
  /\ pcR = "exited" /\ whisper_model /\ udp_socket = "closed"
  /\ pcC = "unstarted" /\ npkts = 0

\* A further reachable case of C19: the server runs while the delivery has
\* failed and, in an earlier close, the transcription service raised.
C19_RunsAfterFailures ==
  /\ InLoop /\ transcribe_raised = "before" /\ post # <<>>
  /\ post[1].status = 0

\* C20: when process_audio_buffer finds the buffer empty at its first test,
\* its next step returns to the polling loop, and the close has called
\* neither the conditioner nor the transcription service nor the sink nor
\* save_audio_debug, and has copied nothing.
C20_EmptyCloseDoesNothing ==
  [][ (pcC = "p149" /\ Len(audio_buffer) = 0 /\ CheckerSteps) =>
        /\ pcC' = "sleep"
        /\ audio_data' = <<>> /\ processed_audio' = <<>> /\ tcalls' = <<>>
        /\ post' = <<>> /\ dump' = <<>>
    ]_vars

\* C20 witness: a single zero-length datagram was handled, the timeout fired
\* and process_audio_buffer has returned at once, leaving the session as it
\* was.
C20_Witness ==
  /\ npkts = 1 /\ ~rxErr /\ pcR = "recvfrom" /\ pcC = "sleep" /\ closes >= 1
  /\ audio_buffer = <<>> /\ is_recording /\ last_audio_time > 0

\* C21 (as claimed): is_recording goes from true to false only in the step
\* of the timeout checker's close (the finally clause of
\* process_audio_buffer), never in a step of handle_audio_data.
C21_OnlyTimeoutEndsRecording ==
  [][(is_recording /\ ~is_recording') => (pcC = "p214" /\ pcC' = "p217")]_vars

\* C22 (as claimed): the buffer holds bytes only while is_recording is true,
\* or in the close between self.is_recording = False (line 214) and the clear
\* of line 217.
C22_BufferOnlyWhileRecording ==
  audio_buffer # <<>> => (is_recording \/ pcC = "p217")

\* C23: two runs that get the same payloads at the same times, each datagram
\* from any sender in either run, have the same is_recording, buffer,
\* last_audio_time and closed segments after every step.
C23_SenderIrrelevant ==
  pairOn => SessionOf(runA) = SessionOf(runB)

\* C23 witness: the runs differ in their senders, a second sender joined one
\* of them in mid-recording, and a segment holding both datagrams was closed.
C23_Witness ==
  /\ pairOn
  /\ runA.senders = <<"esp32", "esp32">>
  /\ runB.senders = <<"esp32", "other">>
  /\ Len(runB.logged) = 1
  /\ runB.segments # <<>> /\ Len(runB.segments[1]) >= 2

\* C24: at most one call of the transcription service has begun and not yet
\* returned, whatever the receive loop does in the meantime.
C24_OneTranscriptionInFlight == inflight <= 1

\* C24 witness: a call is in flight and a datagram that arrived after it
\* began is being handled by the receive loop.
C24_Witness ==
  /\ inflight = 1 /\ pcC = "p175w"
  /\ pcR = "h118" /\ data # <<>> /\ Len(tcalls) = 1

\* C25 (as claimed): a POST answered with any status from 200 to 299 is
\* recorded as a success, never as an error.
C25_Any2xxIsSuccess ==
  \A i \in 1..Len(post) :
    (post[i].status >= 200 /\ post[i].status <= 299) => post[i].logged = "info"

\* The order of the stages in enhance_audio_quality.
StageOrder ==
  <<"spectral_subtraction", "apply_speech_filter", "apply_compression",
    "apply_agc", "wiener_filter", "clip">>

\* C26: the stages that have run are always the first ones of the order
\* noise floor, band-pass, compression, gain control, Wiener, clip, each once;
\* each was given the whole array returned by the one before it; and when
\* enhance_audio_quality returns its enhanced array, all six have run.
C26_StagesInOrder ==
  /\ Len(applied) <= Len(StageOrder)
  /\ applied = SubSeq(StageOrder, 1, Len(applied))
  /\ fed
  /\ epc \in {"e294", "r294", "t294"} => applied = StageOrder

\* C26 witness: a segment long enough for the band-pass filter went through
\* all six stages and the enhanced array was returned.
C26_Witness ==
  /\ epc = "r294" /\ applied = StageOrder
  /\ Len(enh_input.v) > PadLen /\ enh_result.dtype = "int16"

\* C27 (as claimed): every debug file written during a close holds exactly
\* the bytes of the segment being processed (the copy of line 157).
C27_DumpIsSegment ==
  \A i \in 1..Len(dump) : dump[i].bytes = audio_data

\* C28: no step changes the configuration (port, sample rate, channels,
\* sample width, timeout, delivery endpoint), so the cap max_buffer_size and
\* the retained size keep_size are the same in every step.
C28_ConfigReadOnly ==
  [][/\ config' = config
     /\ max_buffer_size' = max_buffer_size
     /\ keep_size' = keep_size]_vars

\* C28 witness: a second datagram was appended, the cap was computed again
\* and exceeded, and the buffer is about to be cut to keep_size.
C28_Witness ==
  /\ pcR = "h129" /\ npkts >= 2 /\ Len(audio_buffer) > max_buffer_size
  /\ config = LoadedConfig

\* The timeout checker fires: it calls process_audio_buffer.
CheckerFires == pcC = "sleep" /\ pcC' = "p149"

\* C29 (as claimed): the checker fires only when is_recording is true,
\* last_audio_time is not 0 and strictly more than audio_timeout has passed
\* since last_audio_time (a gap of exactly audio_timeout does not fire); and
\* a new datagram being needed to set last_audio_time before each further
\* firing, its earlier firings (closes counts those since the last receive)
\* are fewer than the datagrams received: with one datagram it fires once.
C29_FiresOnlyOnTimeout ==
  [][CheckerFires =>
       /\ is_recording /\ last_audio_time # 0
       /\ now - last_audio_time > audio_timeout
       /\ closes < npkts]_vars

\* The first part of C29 alone: the guard of the checker.
C29_GuardOnly ==
  [][CheckerFires =>
       /\ is_recording /\ last_audio_time # 0
       /\ now - last_audio_time > audio_timeout]_vars

\* handle_audio_data returns in this step.
IngestionEnds == pcR \in {"h125", "h129w"} /\ pcR' = "recvfrom"

\* C30: when handle_audio_data returns, the buffer is a contiguous suffix of
\* the payloads of the current recording concatenated in arrival order:
\* nothing is reordered, duplicated or missing from its middle or its end.
C30_ContiguousSuffix ==
  [][IngestionEnds => IsSuffix(audio_buffer', AllBytes)]_vars

\* C30 witness: a truncating call is about to return and leaves a non-empty
\* buffer that is the end, and not the whole, of what the recording received.
C30_Witness ==
  /\ pcR = "h129w" /\ sliced # <<>>
  /\ Len(sliced) < Len(AllBytes) /\ IsSuffix(sliced, AllBytes)

\* A datagram is handled in this step of the two runs.
PairIngests == pcount' = pcount + 1

\* The buffer a datagram is appended to: the recording's, or an empty one
\* when the datagram starts a recording.
BufferBefore(s) == IF s.is_recording THEN s.audio_buffer ELSE <<>>

\* The payload handled in this step.
PairPayload == [ i \in 1..(pnext' - pnext) |-> pnext + i - 1 ]

\* C31: handling a datagram leaves the buffer as (buffer followed by
\* payload), every byte kept, exactly when len(buffer) + len(payload) is at
\* most max_buffer_size; otherwise, and only then, the buffer is cut.
C31_StrictOverflowTrigger ==
  [][PairIngests =>
       ( (runA'.audio_buffer = BufferBefore(runA) \o PairPayload)
           <=> (Len(BufferBefore(runA)) + Len(PairPayload)
                  <= MaxSeconds * sample_rate * 2) )]_vars

\* C31 witness: two datagrams have brought the buffer to exactly
\* max_buffer_size bytes, and all of them are still there.
C31_Witness ==
  /\ pairOn /\ pcount = 2
  /\ Len(runA.audio_buffer) = MaxSeconds * sample_rate * 2
  /\ runA.audio_buffer[1] = 1

\* C32 (as claimed): every closed segment begins on a sample boundary of the
\* stream the recording received (bytes 1-2, 3-4, ... are its samples), so
\* each byte pair decoded from it is a sample of that stream.
C32_SegmentsAligned ==
  pairOn =>
    \A i \in 1..Len(runA.segments) :
      runA.segments[i] # <<>> => runA.segments[i][1] % 2 = 1

\* C33 (as claimed): the copy of the buffer taken by process_audio_buffer
\* (line 157) is never longer than max_buffer_size.
C33_SnapshotWithinCap ==
  Len(audio_data) <= MaxSeconds * sample_rate * 2

\* C34 (as claimed): whenever handle_audio_data is not in progress and the
\* timeout thread is in its polling loop, a recording session has a
\* last_audio_time other than 0.
C34_RecordingHasTimestamp ==
  (pcR = "recvfrom" /\ pcC = "sleep" /\ is_recording) => last_audio_time # 0

\* C35 (as claimed): a debug file is written only when debug_save_audio is
\* enabled (an attribute that load_config did not set reads as disabled).
C35_DumpOnlyWhenEnabled == dump # <<>> => debug_save_audio

\* The gain the claim prescribes for a segment of root mean square r > 0:
\* target_rms / r, or 3 when that is more.
ClaimedGain(r) == IF MaxGain * r <= TargetRms THEN <<MaxGain, 1>> ELSE <<TargetRms, r>>

\* C36: apply_agc returns every sample multiplied by the one gain
\* min(target_rms / current_rms, 3.0), which is at most 3; a segment whose
\* root mean square is 0 is returned as it is, and nothing was divided.
C36_SingleBoundedGain ==
  npc = "apply_agc" =>
    /\ Len(ny) = Len(nx)
    /\ IF Len(nx) > 0 /\ SumSq(nx) > 0
         THEN LET g == ClaimedGain(current_rms(nx))
              IN  /\ RatLe(g, <<MaxGain, 1>>)
                  /\ \A i \in 1..Len(nx) :
                       /\ RatEq(ny[i], <<nx[i] * g[1], g[2]>>)
                       /\ RatLe(RatAbs(ny[i]), <<MaxGain * Abs(nx[i]), 1>>)
         ELSE /\ ~ndiv
              /\ \A i \in 1..Len(nx) : ny[i] = <<nx[i], 1>>

\* C36 witness: a quiet segment with two different samples was amplified by
\* the limit 3, not by the 12 that would bring it to the target.
C36_Witness ==
  /\ npc = "apply_agc" /\ nx = <<1, 7>>
  /\ ny = <<<<3, 1>>, <<21, 1>>>>

\* A segment of zeros went through apply_agc unchanged.
C36_ZeroWitness ==
  npc = "apply_agc" /\ nx = <<0, 0>> /\ ny = <<<<0, 1>>, <<0, 1>>>> /\ ~ndiv

\* C37: apply_compression leaves a sample of magnitude at most
\* threshold = 0.7 * peak as it is and turns a larger one into
\* sign(x) * (threshold + (|x| - threshold) / 4), which is
\* sign(x) * (21 * peak + 10 * |x|) / 40; no sample grows in magnitude, every
\* sample keeps its sign, and samples keep the order of their magnitudes.
C37_Compression ==
  npc = "apply_compression" =>
    /\ Len(ny) = Len(nx)
    /\ \A i \in 1..Len(nx) :
         /\ 10 * Abs(nx[i]) <= KneeTenths * Peak(nx) => ny[i] = <<nx[i], 1>>
         /\ 10 * Abs(nx[i]) > KneeTenths * Peak(nx) =>
              RatEq(ny[i],
                    <<Sign(nx[i]) * (21 * Peak(nx) + 10 * Abs(nx[i])), 40>>)
         /\ RatLe(RatAbs(ny[i]), <<Abs(nx[i]), 1>>)
         /\ Sign(ny[i][1]) = Sign(nx[i])
         /\ \A j \in 1..Len(nx) :
              Abs(nx[i]) <= Abs(nx[j]) => RatLe(RatAbs(ny[i]), RatAbs(ny[j]))

\* C37 witness: a segment with a sample exactly at the threshold (kept), one
\* just above it and the negative peak (both compressed).
C37_Witness ==
  /\ npc = "apply_compression" /\ nx = <<280, 281, -FullScale>>
  /\ ny[1] = <<280, 1>>
  /\ RatEq(ny[2], <<11210, 40>>)
  /\ RatEq(ny[3], <<-310, 1>>)

\* C38 (as claimed): every gain computed by wiener_filter is a number from 0
\* to 1, also where signal power and noise power are both 0, and no sample
\* grows in magnitude.
C38_GainWithinUnit ==
  npc = "wiener_filter" =>
    \A i \in 1..Len(nx) :
      /\ ~IsNaN(ngain[i])
      /\ RatLe(<<0, 1>>, ngain[i]) /\ RatLe(ngain[i], <<1, 1>>)
      /\ ~IsNaN(ny[i])
      /\ RatLe(RatAbs(ny[i]), <<Abs(nx[i]), 1>>)

\* The same for the samples whose gain is a number.
C38_GainWithinUnitWhereDefined ==
  npc = "wiener_filter" =>
    \A i \in 1..Len(nx) :
      ~IsNaN(ngain[i]) =>
        /\ RatLe(<<0, 1>>, ngain[i]) /\ RatLe(ngain[i], <<1, 1>>)
        /\ RatLe(RatAbs(ny[i]), <<Abs(nx[i]), 1>>)

\* ---------------------------------------------------------------- C39
\* The calls of save_audio_recording that found audio for recording r.
SavesOf(r) == { i \in 1..Len(cap_saves) : cap_saves[i].rec = r }

\* The capture session is at rest with its last recording closed: the
\* main thread waits in recvfrom, the timeout thread sleeps, and
\* is_recording is false.
CaptureClosed ==
  /\ cap_pcM = "recvfrom" /\ cap_pcC = "sleep"
  /\ ~cap_is_recording /\ cap_rec > 0

\* C39: in the capture variant every recording that received at least one
\* non-empty datagram is saved exactly once: no recording has two calls of
\* save_audio_recording that found its audio (the timeout thread's and
\* stop_server's never both), and a recording the timeout thread has closed
\* with audio in its buffer has one.
C39_SavedExactlyOnce ==
  /\ \A r \in 1..cap_rec : Cardinality(SavesOf(r)) <= 1
  /\ (CaptureClosed /\ cap_audio_buffer # <<>>)
       => Cardinality(SavesOf(cap_rec)) = 1

====
